---- MODULE Spec2Model ----
(***************************************************************************)
(* Model of archive_desktop.py: the command-line start-up (credential      *)
(* defaults, argument parser, construction of DesktopArchiveManager) and   *)
(* DesktopArchiveManager.archive_files with the helpers it calls.          *)
(*                                                                         *)
(* Text (keys, file names, the index file, the credential file) is kept    *)
(* as strings and computed character by character, so that formatting,     *)
(* joining and splitting are what the Python code does.                    *)
(***************************************************************************)
EXTENDS Integers, Sequences, FiniteSets, TLC

VARIABLES
    pc,              \* position of the single thread of control
    err,             \* the exception that ended the run ("" while none)
    failedAt,        \* the position at which it was raised ("" while none)
    now,             \* the host clock: [date |-> [y, m, d], sod |-> second of day]
    now0,            \* the clock when the process started
    ticks,           \* how often the clock was advanced (bounds the model)
    credFile,        \* ~/.passwd-s3fs: <<>> when absent, <<contents>> when present
    argv,            \* the command line: [bucket_prefix, aws_access_key, aws_secret_key]
    access_default,  \* module-level name access_default
    secret_default,  \* module-level name secret_default
    key_default,     \* module-level name key_default
    args,            \* the parsed argparse namespace
    remote_path,     \* DesktopArchiveManager.remote_path
    tree,            \* the entries below local_path (the source directory)
    tmp,             \* the temporary files: name -> contents
    archive_path,    \* local archive_path of archive_files
    index_path,      \* local index_path of archive_files
    returncode,      \* proc.returncode of the tar subprocess: <<>> or <<status>>
    bucket,          \* the objects of the S3 bucket
    bucket0,         \* the bucket as it was before the run
    puts             \* the PUT requests the bucket accepted, in order

vars == <<pc, err, failedAt, now, now0, ticks, credFile, argv, access_default,
          secret_default, key_default, args, remote_path, tree, tmp,
          archive_path, index_path, returncode, bucket, bucket0, puts>>

\* ------------------------------------------------------------------ bounds

\* The clock is advanced at most this often during one behaviour.
MaxTicks == 2

\* create_directory is re-run at most this often in SpecMarker.
MaxCalls == 3

\* The archives SpecIndex reads have at most this many members.
MaxMembers == 3

\* ------------------------------------------------------------- Python text

StartsWith(s, p) == Len(s) >= Len(p) /\ SubSeq(s, 1, Len(p)) = p

EndsWith(s, p) == Len(s) >= Len(p) /\ SubSeq(s, Len(s) - Len(p) + 1, Len(s)) = p

\* The positions of s that hold the character c.
Positions(s, c) == {i \in 1..Len(s) : SubSeq(s, i, i) = c}

Min(S) == CHOOSE i \in S : \A j \in S : i <= j

\* str.split(sep) for a one-character separator.
RECURSIVE Split(_, _)
Split(s, sep) ==
    IF Positions(s, sep) = {}
    THEN <<s>>
    ELSE LET i == Min(Positions(s, sep))
         IN  <<SubSeq(s, 1, i - 1)>> \o Split(SubSeq(s, i + 1, Len(s)), sep)

Whitespace == {" ", "\t", "\n", "\r"}

\* str.strip(): leading and trailing whitespace removed.
RECURSIVE Strip(_)
Strip(s) ==
    IF Len(s) = 0 THEN s
    ELSE IF SubSeq(s, 1, 1) \in Whitespace THEN Strip(SubSeq(s, 2, Len(s)))
    ELSE IF SubSeq(s, Len(s), Len(s)) \in Whitespace THEN Strip(SubSeq(s, 1, Len(s) - 1))
    ELSE s

\* '%0<w>d' formatting of a non-negative integer.
RECURSIVE ZeroPad(_, _)
ZeroPad(s, w) == IF Len(s) >= w THEN s ELSE ZeroPad("0" \o s, w)

\* posixpath.join(a, *ps).
RECURSIVE PathJoin(_, _)
PathJoin(a, ps) ==
    IF ps = <<>> THEN a
    ELSE LET b == Head(ps)
             path == IF StartsWith(b, "/") THEN b
                     ELSE IF Len(a) = 0 \/ EndsWith(a, "/") THEN a \o b
                     ELSE a \o "/" \o b
         IN  PathJoin(path, Tail(ps))

\* ------------------------------------------------------------------- clock

Date(y, m, d) == [y |-> y, m |-> m, d |-> d]

IsLeap(y) == (y % 4 = 0 /\ y % 100 # 0) \/ y % 400 = 0

DaysInMonth(y, m) ==
    IF m = 2 THEN (IF IsLeap(y) THEN 29 ELSE 28)
    ELSE IF m \in {4, 6, 9, 11} THEN 30 ELSE 31

NextDay(dt) ==
    IF dt.d < DaysInMonth(dt.y, dt.m) THEN Date(dt.y, dt.m, dt.d + 1)
    ELSE IF dt.m < 12 THEN Date(dt.y, dt.m + 1, 1)
    ELSE Date(dt.y + 1, 1, 1)

\* Days since 1970-01-01 of a civil date.
DaysFromCivil(dt) ==
    LET y   == IF dt.m <= 2 THEN dt.y - 1 ELSE dt.y
        era == y \div 400
        yoe == y - era * 400
        mp  == IF dt.m > 2 THEN dt.m - 3 ELSE dt.m + 9
        doy == (153 * mp + 2) \div 5 + dt.d - 1
        doe == yoe * 365 + yoe \div 4 - yoe \div 100 + doy
    IN  era * 146097 + doe - 719468

SecondsPerDay == 24 * 60 * 60

\* The clock t seconds later (t is less than a day).
Advance(c, t) ==
    IF c.sod + t < SecondsPerDay
    THEN [date |-> c.date, sod |-> c.sod + t]
    ELSE [date |-> NextDay(c.date), sod |-> c.sod + t - SecondsPerDay]

\* int(time.time())
time == DaysFromCivil(now.date) * SecondsPerDay + now.sod

\* Mutant of strftime: '%Y-%-m-%-d', the month and the day without padding.
strftime_unpadded(dt) ==
    ToString(dt.y) \o "-" \o ToString(dt.m) \o "-" \o ToString(dt.d)

\* datetime.datetime.now().strftime('%Y-%m-%d')
strftime(dt) ==
    ZeroPad(ToString(dt.y), 4) \o "-" \o ZeroPad(ToString(dt.m), 2)
        \o "-" \o ZeroPad(ToString(dt.d), 2)

\* ------------------------------------------------------------ Python names

\* A name that was never assigned: reading it raises NameError.
Unbound == [tag |-> "unbound"]

None == [tag |-> "None"]

Str(s) == [tag |-> "str", v |-> s]

\* An uncaught exception: the process ends where it was raised.
Raise(e) ==
    /\ pc' = "Error"
    /\ err' = e
    /\ failedAt' = pc

Goto(p) ==
    /\ pc' = p
    /\ UNCHANGED <<err, failedAt>>

\* -------------------------------------------------------------- local files

Bytes(s) == [kind |-> "bytes", data |-> s]

Tar(ms) == [kind |-> "tar", members |-> ms]

\* tempfile.mkstemp(): a fresh name; the file is created empty.
mkstemp == "/tmp/tmp" \o ToString(Cardinality(DOMAIN tmp) + 1)

WriteFile(files, name, contents) ==
    [f \in DOMAIN files \cup {name} |-> IF f = name THEN contents ELSE files[f]]

\* What may lie below the source directory, in the order tar walks it.
Entries ==
    << [name |-> ".hidden",   size |-> 7,  dir |-> FALSE],
       [name |-> "a.txt",     size |-> 10, dir |-> FALSE],
       [name |-> "sub",       size |-> 0,  dir |-> TRUE],
       [name |-> "sub/.c",    size |-> 5,  dir |-> FALSE],
       [name |-> "sub/b.txt", size |-> 20, dir |-> FALSE] >>

Range(f) == {f[i] : i \in DOMAIN f}

TopLevel(e) == Positions(e.name, "/") = {}

\* e lies in the directory d or below it.
Below(e, d) == StartsWith(e.name, d.name \o "/")

\* The source trees: every entry of a tree has its directory in the tree.
Trees ==
    {t \in SUBSET Range(Entries) :
        \A e \in t : TopLevel(e) \/ \E d \in t : d.dir /\ Below(e, d)}

\* ------------------------------------------------------------ create_archive

\* The shell's expansion of `*` in the source directory: the entries directly
\* in it whose name does not begin with a dot.
Glob(t) == {e \in t : TopLevel(e) /\ ~StartsWith(e.name, ".")}

\* The members tar writes for the operands g: each operand and all below it.
TarMembers(t, g) ==
    SelectSeq(Entries, LAMBDA e : e \in t /\ \E o \in g : e = o \/ Below(e, o))

Prefixes(s) == {SubSeq(s, 1, n) : n \in 0..Len(s)}

\* The exit status of `tar -zcvf <tempfilename> *` and what it leaves in the
\* temporary file. With nothing to expand, the shell hands tar a literal `*`,
\* which does not exist. A failing tar leaves a whole, a partial or an empty
\* archive, or (when it could not run or was cut short) no tar stream at all.
TarRuns(t) ==
    LET all == TarMembers(t, Glob(t))
    IN  IF Glob(t) = {}
        THEN {[status |-> 2, contents |-> Tar(<<>>)],
              [status |-> 127, contents |-> Bytes("")]}
        ELSE {[status |-> 0, contents |-> Tar(all)],
              [status |-> 1, contents |-> Tar(all)],
              [status |-> 127, contents |-> Bytes("")]}
             \cup {[status |-> 2, contents |-> Tar(p)] : p \in Prefixes(all) \ {all}}

\* ------------------------------------------------- create_index_from_archive

\* Mutant of IndexLine: a blank for the tab.
IndexLine_blank(member) == member.name \o " " \o ToString(member.size) \o "\n"

\* u'%s\t%s\n' % (member.name, member.size)
IndexLine(member) == member.name \o "\t" \o ToString(member.size) \o "\n"

\* What the loop over archive.getmembers() writes to the index file.
RECURSIVE IndexText(_)
IndexText(members) ==
    IF members = <<>> THEN ""
    ELSE IndexLine(Head(members)) \o IndexText(Tail(members))

\* -------------------------------------------------------------- the bucket

H(k, v) == [name |-> k, value |-> v]

\* Key.set_contents_from_string / set_contents_from_filename: the PUT request.
Request(key, body, headers, policy) ==
    [key |-> key, body |-> body, headers |-> headers, policy |-> policy]

\* S3's PUT: the object takes the place of the one stored at the key, if any.
PutObject(b, req) == {o \in b : o.key # req.key} \cup {req}

\* DesktopArchiveManager.get_prefix(*components)
get_prefix(components) ==
    PathJoin(remote_path, <<strftime(now.date)>> \o components)

\* Mutant of create_directory: the marker stored as a plain file would be.
create_directory_as_file(prefix) ==
    Request(prefix, Bytes(""),
            {H("Content-Type", "application/octet-stream"),
             H("x-amz-meta-mtime", ToString(time))},
            "private")

\* The request of create_directory(prefix).
create_directory(prefix) ==
    Request(prefix, Bytes(""),
            {H("Content-Type", "application/x-directory"),
             H("x-amz-meta-gid", "20"),
             H("x-amz-meta-uid", "501"),
             H("x-amz-meta-mode", "16877"),
             H("x-amz-meta-mtime", ToString(time))},
            "private")

\* Mutant of store_file_at_path: the policy argument left to a public default.
store_file_at_path_public(local_path, key) ==
    Request(key, tmp[local_path],
            {H("Content-Type", "application/octet-stream"),
             H("x-amz-meta-mtime", ToString(time))},
            "public-read")

\* The request of store_file_at_path(local_path, remote_path).
store_file_at_path(local_path, key) ==
    Request(key, tmp[local_path],
            {H("Content-Type", "application/octet-stream"),
             H("x-amz-meta-mtime", ToString(time))},
            "private")

\* ------------------------------------------------------------------- Init

StartClocks ==
    {[date |-> Date(2024, 3, 5),   sod |-> 12 * 60 * 60],
     [date |-> Date(2024, 12, 31), sod |-> SecondsPerDay - 1]}

\* ~/.passwd-s3fs: absent, well-formed, or without the colon.
CredFiles == {<<>>, <<"AK:SK\n">>, <<"AKSK\n">>}

\* The command line: each option is <<>> when it is not given.
CommandLines ==
    [bucket_prefix  : {<<>>, <<"backup/pc">>, <<"pc/">>},
     aws_access_key : {<<>>},
     aws_secret_key : {<<>>, <<"CLISK">>}]

\* An object an earlier run (of 2024-03-05, 08:00:00) left in the bucket.
OldMarker ==
    Request("desktop/2024-03-05", Bytes(""),
            {H("Content-Type", "application/x-directory"),
             H("x-amz-meta-gid", "20"),
             H("x-amz-meta-uid", "501"),
             H("x-amz-meta-mode", "16877"),
             H("x-amz-meta-mtime", "1709625600")},
            "private")

Unrelated ==
    Request("notes.txt", Bytes("hello"),
            {H("Content-Type", "text/plain")}, "public-read")

Buckets == {{}, {Unrelated}, {OldMarker, Unrelated}}

NoFiles == [f \in {} |-> Bytes("")]

Init ==
    /\ pc = "LoadCredentials"
    /\ err = ""
    /\ failedAt = ""
    /\ now \in StartClocks
    /\ now0 = now
    /\ ticks = 0
    /\ credFile \in CredFiles
    /\ argv \in CommandLines
    /\ access_default = Unbound
    /\ secret_default = Unbound
    /\ key_default = Unbound
    /\ args = None
    /\ remote_path = ""
    /\ tree \in Trees
    /\ tmp = NoFiles
    /\ archive_path = ""
    /\ index_path = ""
    /\ returncode = <<>>
    /\ bucket \in Buckets
    /\ bucket0 = bucket
    /\ puts = <<>>

\* ---------------------------------------------------------------- start-up

\* get_access_key_and_secret_from_s3fs()
get_access_key_and_secret_from_s3fs == Split(Strip(credFile[1]), ":")

\* The try/except that sets the credential defaults.
LoadCredentials ==
    /\ pc = "LoadCredentials"
    /\ IF credFile = <<>>
       THEN \* open() raises IOError, which is caught
            /\ access_default' = None
            /\ key_default' = None
            /\ UNCHANGED secret_default
            /\ Goto("BuildParser")
       ELSE IF Len(get_access_key_and_secret_from_s3fs) = 2
       THEN /\ access_default' = Str(get_access_key_and_secret_from_s3fs[1])
            /\ secret_default' = Str(get_access_key_and_secret_from_s3fs[2])
            /\ UNCHANGED key_default
            /\ Goto("BuildParser")
       ELSE \* the unpacking of a list that has not two items
            /\ Raise("ValueError")
            /\ UNCHANGED <<access_default, secret_default, key_default>>
    /\ UNCHANGED <<now, now0, ticks, credFile, argv, args, remote_path, tree, tmp,
                   archive_path, index_path, returncode, bucket, bucket0, puts>>

\* The names the add_argument calls read for their defaults.
ParserDefaults == {access_default, secret_default}

\* argparse.ArgumentParser() and the add_argument calls.
BuildParser ==
    /\ pc = "BuildParser"
    /\ IF Unbound \in ParserDefaults THEN Raise("NameError") ELSE Goto("ParseArgs")
    /\ UNCHANGED <<now, now0, ticks, credFile, argv, access_default, secret_default,
                   key_default, args, remote_path, tree, tmp, archive_path,
                   index_path, returncode, bucket, bucket0, puts>>

\* parser.parse_args(): an option that is not given takes its default.
ParseArgs ==
    /\ pc = "ParseArgs"
    /\ args' = [aws_access_key |-> IF argv.aws_access_key = <<>> THEN access_default
                                   ELSE Str(argv.aws_access_key[1]),
                aws_secret_key |-> IF argv.aws_secret_key = <<>> THEN secret_default
                                   ELSE Str(argv.aws_secret_key[1]),
                bucket_prefix  |-> IF argv.bucket_prefix = <<>> THEN "desktop"
                                   ELSE argv.bucket_prefix[1]]
    /\ Goto("Construct")
    /\ UNCHANGED <<now, now0, ticks, credFile, argv, access_default, secret_default,
                   key_default, remote_path, tree, tmp, archive_path, index_path,
                   returncode, bucket, bucket0, puts>>

\* What a call of the storage service may raise (authentication, transport).
StorageErrors == {"S3ResponseError", "socket.error"}

\* DesktopArchiveManager.__init__: get_bucket is the first storage call.
Construct ==
    /\ pc = "Construct"
    /\ \/ /\ remote_path' = args.bucket_prefix
          /\ Goto("Start")
       \/ /\ \E e \in StorageErrors : Raise(e)
          /\ UNCHANGED remote_path
    /\ UNCHANGED <<now, now0, ticks, credFile, argv, access_default, secret_default,
                   key_default, args, tree, tmp, archive_path, index_path,
                   returncode, bucket, bucket0, puts>>

\* ------------------------------------------------------------ archive_files

\* Mutant of CreateArchive: the exit status checked (subprocess.check_call).
CreateArchive_checked ==
    /\ pc = "Start"
    /\ \E run \in TarRuns(tree) :
          /\ tmp' = WriteFile(tmp, mkstemp, run.contents)
          /\ returncode' = <<run.status>>
          /\ IF run.status = 0
             THEN archive_path' = mkstemp /\ Goto("Archived")
             ELSE UNCHANGED archive_path /\ Raise("CalledProcessError")
    /\ UNCHANGED <<now, now0, ticks, credFile, argv, access_default, secret_default,
                   key_default, args, remote_path, tree, index_path, bucket,
                   bucket0, puts>>

\* create_archive(self.local_path): the exit status of tar is not looked at.
CreateArchive ==
    /\ pc = "Start"
    /\ \E run \in TarRuns(tree) :
          /\ tmp' = WriteFile(tmp, mkstemp, run.contents)
          /\ returncode' = <<run.status>>
    /\ archive_path' = mkstemp
    /\ Goto("Archived")
    /\ UNCHANGED <<now, now0, ticks, credFile, argv, access_default, secret_default,
                   key_default, args, remote_path, tree, index_path, bucket,
                   bucket0, puts>>

\* create_index_from_archive(archive_path): tarfile.open raises ReadError on a
\* file that is no tar stream, after the index file was created.
CreateIndex ==
    /\ pc = "Archived"
    /\ IF tmp[archive_path].kind = "tar"
       THEN /\ tmp' = WriteFile(tmp, mkstemp,
                                Bytes(IndexText(tmp[archive_path].members)))
            /\ index_path' = mkstemp
            /\ Goto("Indexed")
       ELSE /\ tmp' = WriteFile(tmp, mkstemp, Bytes(""))
            /\ UNCHANGED index_path
            /\ Raise("ReadError")
    /\ UNCHANGED <<now, now0, ticks, credFile, argv, access_default, secret_default,
                   key_default, args, remote_path, tree, archive_path,
                   returncode, bucket, bucket0, puts>>

\* Mutant of Put: a failed call removes what the run had stored.
Put_rollback(req, next) ==
    \/ /\ bucket' = PutObject(bucket, req)
       /\ puts' = Append(puts, req)
       /\ Goto(next)
    \/ /\ \E e \in StorageErrors : Raise(e)
       /\ bucket' = {o \in bucket : o \notin Range(puts)}
       /\ UNCHANGED puts

\* One PUT: the bucket takes the object, or the call raises.
Put(req, next) ==
    \/ /\ bucket' = PutObject(bucket, req)
       /\ puts' = Append(puts, req)
       /\ Goto(next)
    \/ /\ \E e \in StorageErrors : Raise(e)
       /\ UNCHANGED <<bucket, puts>>

\* Mutant of CreateDirectory: the marker written before the index is made.
CreateDirectory_early ==
    /\ pc = "Archived"
    /\ Put(create_directory(get_prefix(<<>>)), "DirectoryEnsured")
    /\ UNCHANGED <<now, now0, ticks, credFile, argv, access_default, secret_default,
                   key_default, args, remote_path, tree, tmp, archive_path,
                   index_path, returncode, bucket0>>

\* self.create_directory(self.get_prefix())
CreateDirectory ==
    /\ pc = "Indexed"
    /\ Put(create_directory(get_prefix(<<>>)), "DirectoryEnsured")
    /\ UNCHANGED <<now, now0, ticks, credFile, argv, access_default, secret_default,
                   key_default, args, remote_path, tree, tmp, archive_path,
                   index_path, returncode, bucket0>>

\* self.store_file_at_path(archive_path, self.get_prefix('archive.tar.gz'))
StoreArchive ==
    /\ pc = "DirectoryEnsured"
    /\ Put(store_file_at_path(archive_path, get_prefix(<<"archive.tar.gz">>)),
           "ArchiveUploaded")
    /\ UNCHANGED <<now, now0, ticks, credFile, argv, access_default, secret_default,
                   key_default, args, remote_path, tree, tmp, archive_path,
                   index_path, returncode, bucket0>>

\* self.store_file_at_path(index_path, self.get_prefix('index.tsv.txt'))
StoreIndex ==
    /\ pc = "ArchiveUploaded"
    /\ Put(store_file_at_path(index_path, get_prefix(<<"index.tsv.txt">>)),
           "ManifestUploaded")
    /\ UNCHANGED <<now, now0, ticks, credFile, argv, access_default, secret_default,
                   key_default, args, remote_path, tree, tmp, archive_path,
                   index_path, returncode, bucket0>>

\* logger.info('Files archived') and the return of archive_files.
Finish ==
    /\ pc = "ManifestUploaded"
    /\ Goto("Done")
    /\ UNCHANGED <<now, now0, ticks, credFile, argv, access_default, secret_default,
                   key_default, args, remote_path, tree, tmp, archive_path,
                   index_path, returncode, bucket, bucket0, puts>>

\* A second passes between two steps of the process (the clock is followed
\* while the process runs).
Tick ==
    /\ pc \notin {"Done", "Error"}
    /\ ticks < MaxTicks
    /\ ticks' = ticks + 1
    /\ now' = Advance(now, 1)
    /\ UNCHANGED <<pc, err, failedAt, now0, credFile, argv, access_default,
                   secret_default, key_default, args, remote_path, tree, tmp,
                   archive_path, index_path, returncode, bucket, bucket0, puts>>

\* A step of the process itself.
ProgramStep ==
    \/ LoadCredentials
    \/ BuildParser
    \/ ParseArgs
    \/ Construct
    \/ CreateArchive
    \/ CreateIndex
    \/ CreateDirectory
    \/ StoreArchive
    \/ StoreIndex
    \/ Finish

Next ==
    \/ ProgramStep
    \/ Tick

Spec == Init /\ [][Next]_vars

\* ------------------------------------------- create_index_from_archive alone

\* The members the archives of SpecIndex are made of.
MemberPool ==
    {[name |-> "a.txt",     size |-> 10, dir |-> FALSE],
     [name |-> "sub/b.txt", size |-> 20, dir |-> FALSE],
     [name |-> "sub",       size |-> 0,  dir |-> TRUE],
     [name |-> "n\nl",      size |-> 3,  dir |-> FALSE]}

BoundedSeq(S, n) == UNION {[1..k -> S] : k \in 0..n}

\* The files create_index_from_archive is given: every archive of at most
\* MaxMembers members, and a file that holds no tar stream.
ArchiveFiles == {Tar(ms) : ms \in BoundedSeq(MemberPool, MaxMembers)} \cup {Bytes("")}

\* archive_files at the call of create_index_from_archive, for any archive file.
InitIndex ==
    /\ pc = "Archived"
    /\ err = ""
    /\ failedAt = ""
    /\ now \in StartClocks
    /\ now0 = now
    /\ ticks = 0
    /\ credFile = <<"AK:SK\n">>
    /\ argv = [bucket_prefix |-> <<>>, aws_access_key |-> <<>>, aws_secret_key |-> <<>>]
    /\ access_default = Str("AK")
    /\ secret_default = Str("SK")
    /\ key_default = Unbound
    /\ args = [aws_access_key |-> Str("AK"), aws_secret_key |-> Str("SK"),
               bucket_prefix |-> "desktop"]
    /\ remote_path = "desktop"
    /\ tree = {}
    /\ \E file \in ArchiveFiles : tmp = WriteFile(NoFiles, "/tmp/tmp1", file)
    /\ archive_path = "/tmp/tmp1"
    /\ index_path = ""
    /\ returncode = <<0>>
    /\ bucket = {}
    /\ bucket0 = bucket
    /\ puts = <<>>

NextIndex == CreateIndex

SpecIndex == InitIndex /\ [][NextIndex]_vars

\* ------------------------------------------------------ create_directory alone

\* self.create_directory(self.get_prefix()), run again and again.
MarkerCall ==
    /\ pc = "Marker"
    /\ Len(puts) < MaxCalls
    /\ Put(create_directory(get_prefix(<<>>)), "Marker")
    /\ UNCHANGED <<now, now0, ticks, credFile, argv, access_default, secret_default,
                   key_default, args, remote_path, tree, tmp, archive_path,
                   index_path, returncode, bucket0>>

\* A constructed manager, for any bucket prefix, about to create the marker.
InitMarker ==
    /\ pc = "Marker"
    /\ err = ""
    /\ failedAt = ""
    /\ now \in StartClocks
    /\ now0 = now
    /\ ticks = 0
    /\ credFile = <<"AK:SK\n">>
    /\ argv \in {a \in CommandLines : a.aws_secret_key = <<>>}
    /\ access_default = Str("AK")
    /\ secret_default = Str("SK")
    /\ key_default = Unbound
    /\ args = [aws_access_key |-> Str("AK"), aws_secret_key |-> Str("SK"),
               bucket_prefix |-> IF argv.bucket_prefix = <<>> THEN "desktop"
                                 ELSE argv.bucket_prefix[1]]
    /\ remote_path = args.bucket_prefix
    /\ tree = {}
    /\ tmp = NoFiles
    /\ archive_path = ""
    /\ index_path = ""
    /\ returncode = <<>>
    /\ bucket \in Buckets
    /\ bucket0 = bucket
    /\ puts = <<>>

NextMarker ==
    \/ MarkerCall
    \/ Tick

SpecMarker == InitMarker /\ [][NextMarker]_vars

\* ------------------------------------------------------------------ claims

RunSteps ==
    <<"Start", "Archived", "Indexed", "DirectoryEnsured", "ArchiveUploaded",
      "ManifestUploaded", "Done">>

Rank(p) == CHOOSE i \in DOMAIN RunSteps : RunSteps[i] = p

\* The non-empty segments of a key.
Segments(key) == SelectSeq(Split(key, "/"), LAMBDA c : Len(c) > 0)

\* The segment of a key that follows the segments of remote_path.
DatePartition(key) == Segments(key)[Len(Segments(remote_path)) + 1]

PutKeys == {puts[i].key : i \in DOMAIN puts}

\* C1: the keys written in one run (directory marker, archive, manifest) all
\* carry the same YYYY-MM-DD date-partition segment, however the clock behaves
\* between the three get_prefix calls.
C1_SameDatePartition ==
    \A i, j \in DOMAIN puts : DatePartition(puts[i].key) = DatePartition(puts[j].key)

\* The date of the whole run so far, as the text the keys should carry; the
\* clock only moves forward, so a run that started and stands on one date
\* spent all its time on it.
DateText ==
    CASE now.date = Date(2024, 3, 5)   -> "2024-03-05"
      [] now.date = Date(2024, 12, 31) -> "2024-12-31"
      [] now.date = Date(2025, 1, 1)   -> "2025-01-01"

KeysOfRun == [i \in DOMAIN puts |-> puts[i].key]

C3_AbsentFileNotFatal ==
    (credFile = <<>> /\ pc = "Error") =>
        /\ failedAt \notin {"LoadCredentials", "BuildParser", "ParseArgs"}
        /\ err \in StorageErrors

\* C4: the steps of a run are taken only in the order Start, Archived, Indexed,
\* DirectoryEnsured, ArchiveUploaded, ManifestUploaded, Done, each at most once
\* (a step leads to the next one or to the error state, never back and never
\* to itself); an object is written only once the archive and the index file
\* exist, the marker first, the archive object second, the manifest third.
C4_LinearOrder ==
    [][ /\ (pc \in Range(RunSteps) /\ pc' # pc) =>
               \/ pc' = "Error"
               \/ pc' \in Range(RunSteps) /\ Rank(pc') = Rank(pc) + 1
        /\ (puts' # puts \/ bucket' # bucket) =>
               /\ archive_path \in DOMAIN tmp /\ tmp[archive_path].kind = "tar"
               /\ index_path \in DOMAIN tmp /\ index_path # archive_path
               /\ \E req \in bucket' : puts' = Append(puts, req)
               /\ pc \in {"Indexed", "DirectoryEnsured", "ArchiveUploaded"}
               /\ pc = "Indexed" =>
                      /\ Len(puts) = 0
                      /\ puts'[1].body = Bytes("")
               /\ pc = "DirectoryEnsured" =>
                      /\ Len(puts) = 1
                      /\ EndsWith(puts'[2].key, "/archive.tar.gz")
               /\ pc = "ArchiveUploaded" =>
                      /\ Len(puts) = 2
                      /\ EndsWith(puts'[3].key, "/index.tsv.txt")
      ]_vars

\* C4's case: a run went through all the steps.
C4_Witness == pc = "Done" /\ Len(puts) = 3 /\ DOMAIN tmp = {archive_path, index_path}

\* C5: the archive create_archive writes holds every entry below the source
\* directory, those whose name begins with a dot included, under its path
\* relative to the source directory (stated for a tar that exits with 0).
C5_AllEntriesArchived ==
    returncode = <<0>> =>
        {m.name : m \in Range(tmp[archive_path].members)} = {e.name : e \in tree}

\* The lines of a text: the pieces its newlines end.
Lines(text) == SubSeq(Split(text, "\n"), 1, Len(Split(text, "\n")) - 1)

DigitValue(c) == CHOOSE d \in 0..9 : ToString(d) = c

\* The number a decimal numeral stands for.
RECURSIVE ParseInt(_)
ParseInt(s) ==
    IF Len(s) = 0 THEN 0
    ELSE 10 * ParseInt(SubSeq(s, 1, Len(s) - 1)) + DigitValue(SubSeq(s, Len(s), Len(s)))

IsNumeral(s) ==
    /\ Len(s) > 0
    /\ \A i \in 1..Len(s) : \E d \in 0..9 : ToString(d) = SubSeq(s, i, i)
    /\ Len(s) = 1 \/ SubSeq(s, 1, 1) # "0"

RECURSIVE SumSeq(_)
SumSeq(q) == IF q = <<>> THEN 0 ELSE Head(q) + SumSeq(Tail(q))

ArchiveMembers == tmp[archive_path].members

IndexData == tmp[index_path].data

\* Line i of the index is <name of member i> TAB <size of member i>.
LineIsMember(line, member) ==
    LET f == Split(line, "\t")
    IN  /\ Len(f) = 2
        /\ f[1] = member.name
        /\ IsNumeral(f[2])
        /\ ParseInt(f[2]) = member.size

\* The sizes the lines of the index carry add up to the sizes of the members.
SizesAgree ==
    SumSeq([i \in DOMAIN Lines(IndexData) |->
                ParseInt(Split(Lines(IndexData)[i], "\t")[Len(Split(Lines(IndexData)[i], "\t"))])])
        = SumSeq([i \in DOMAIN ArchiveMembers |-> ArchiveMembers[i].size])

ExampleMembers ==
    << [name |-> "a.txt",     size |-> 10, dir |-> FALSE],
       [name |-> "sub/b.txt", size |-> 20, dir |-> FALSE] >>

NewlineFree(members) ==
    \A i \in DOMAIN members : Positions(members[i].name, "\n") = {}

MetaPrefix == "x-amz-meta-"

\* The names of the user metadata of a request or object.
MetaKeys(o) ==
    {SubSeq(h.name, Len(MetaPrefix) + 1, Len(h.name)) :
        h \in {x \in o.headers : StartsWith(x.name, MetaPrefix)}}

HeaderValues(o, name) == {h.value : h \in {x \in o.headers : x.name = name}}

\* A zero-byte directory object with the fixed gid, uid and mode.
IsMarker(o) ==
    /\ o.body.kind = "bytes" /\ Len(o.body.data) = 0
    /\ HeaderValues(o, "Content-Type") = {"application/x-directory"}
    /\ HeaderValues(o, "x-amz-meta-gid") = {"20"}
    /\ HeaderValues(o, "x-amz-meta-uid") = {"501"}
    /\ HeaderValues(o, "x-amz-meta-mode") = {"16877"}
    /\ MetaKeys(o) = {"gid", "uid", "mode", "mtime"}

\* The bucket is as it was, but for the objects written, each at its key.
OnlyPutsChanged ==
    /\ {o \in bucket : o.key \notin PutKeys} = {o \in bucket0 : o.key \notin PutKeys}
    /\ \A k \in PutKeys : Cardinality({o \in bucket : o.key = k}) = 1

MarkerCallSucceeds == MarkerCall /\ pc' = "Marker"

\* C7: after any number n >= 1 of create_directory calls with the same prefix
\* the bucket holds exactly one object at that key: zero bytes, content type
\* application/x-directory, the fixed gid, uid and mode; a call can succeed
\* whether or not the key exists (what a call raises is a storage error); no
\* other key of the bucket is created, changed or removed.
C7_MarkerIdempotent ==
    /\ \A k \in PutKeys : \A o \in bucket : o.key = k => IsMarker(o)
    /\ OnlyPutsChanged
    /\ (pc = "Marker" /\ Len(puts) < MaxCalls) => ENABLED MarkerCallSucceeds
    /\ pc = "Error" => err \in StorageErrors

\* C7's case: the marker was written twice at a key that held a marker before.
C7_Witness ==
    /\ Len(puts) >= 2
    /\ puts[1].key = puts[2].key
    /\ \E o \in bucket0 : o.key = puts[1].key
    /\ \E o \in bucket0 : o.key # puts[1].key

\* C8: a failure of the index creation, the marker upload, the archive upload
\* or the manifest upload ends the run: nothing more is done (no later step,
\* no retry), the objects uploaded before it are still in the bucket and the
\* temporary files created before it still exist.
C8_FailureIsTerminal ==
    (pc = "Error" /\ failedAt \in Range(RunSteps)) =>
        /\ ~ENABLED ProgramStep
        /\ failedAt \in {"Archived", "Indexed", "DirectoryEnsured", "ArchiveUploaded"}
        /\ Len(puts) = (CASE failedAt = "Archived"         -> 0
                          [] failedAt = "Indexed"          -> 0
                          [] failedAt = "DirectoryEnsured" -> 1
                          [] failedAt = "ArchiveUploaded"  -> 2)
        /\ \A i \in DOMAIN puts : puts[i] \in bucket
        /\ OnlyPutsChanged
        /\ archive_path \in DOMAIN tmp
        /\ Cardinality(DOMAIN tmp) = 2
        /\ failedAt = "Archived" => err = "ReadError" /\ index_path = ""
        /\ failedAt # "Archived" =>
               /\ err \in StorageErrors
               /\ index_path \in DOMAIN tmp
               /\ tmp[archive_path].kind = "tar"
               /\ tmp[index_path] = Bytes(IndexText(tmp[archive_path].members))

\* C8's case: the manifest upload failed after the other two objects were stored.
C8_Witness ==
    /\ pc = "Error"
    /\ failedAt = "ArchiveUploaded"
    /\ Len(puts) = 2
    /\ bucket0 # {}

ToolFailed == returncode # <<>> /\ returncode[1] # 0

\* C9 as stated: a run whose tar exited with a failure goes on through all the
\* later steps and is done, unless a storage call fails.
C9_FailedToolRunIsDone ==
    (ToolFailed /\ pc = "Error") => err \in StorageErrors

\* C9, amended: whatever status tar exits with, create_archive returns the
\* temporary archive path without raising and the run goes on to the indexing;
\* the status is never looked at again. A run whose tar failed is done when
\* the file tar left can be read as a tar archive and no storage call fails;
\* when it cannot be read, the indexing raises and the run ends there.
C9_ExitStatusIgnored ==
    /\ failedAt # "Start"
    /\ returncode # <<>> => archive_path \in DOMAIN tmp /\ pc # "Start"
    /\ (ToolFailed /\ pc = "Error") =>
           IF tmp[archive_path].kind = "tar"
           THEN err \in StorageErrors /\ failedAt # "Archived"
           ELSE err = "ReadError" /\ failedAt = "Archived"
    /\ (ToolFailed /\ pc \in Range(RunSteps) /\ Rank(pc) > Rank("Archived")) =>
           tmp[archive_path].kind = "tar"

\* C9's case: tar failed and the run is done.
C9_Witness == pc = "Done" /\ ToolFailed

\* C10: a run that is done made exactly three writes and changed nothing else
\* in the bucket: a zero-byte object of content type application/x-directory
\* with the metadata gid, uid, mode, mtime, and the objects archive.tar.gz and
\* index.tsv.txt, whose bodies are the whole archive file and the whole index
\* file, each of content type application/octet-stream, with the metadata
\* mtime alone and the private access policy.
C10_ThreeWrites ==
    pc = "Done" =>
        /\ Len(puts) = 3
        /\ Cardinality(PutKeys) = 3
        /\ \A i \in DOMAIN puts : puts[i] \in bucket
        /\ OnlyPutsChanged
        /\ IsMarker(puts[1])
        /\ EndsWith(puts[2].key, "/archive.tar.gz")
        /\ puts[2].body = tmp[archive_path]
        /\ EndsWith(puts[3].key, "/index.tsv.txt")
        /\ puts[3].body = tmp[index_path]
        /\ \A i \in {2, 3} :
               /\ HeaderValues(puts[i], "Content-Type") = {"application/octet-stream"}
               /\ MetaKeys(puts[i]) = {"mtime"}
               /\ Cardinality(puts[i].headers) = 2
               /\ puts[i].policy = "private"

\* C10's case: a finished run on a bucket that held objects, with a non-empty archive.
C10_Witness ==
    /\ pc = "Done"
    /\ bucket0 # {}
    /\ Len(tmp[archive_path].members) > 0
    /\ Len(tmp[index_path].data) > 0

====
